---- MODULE Spec2Model ----
(***************************************************************************)
(* Model of normcap's capture window (src/normcap/gui/window.py): one     *)
(* Window per display, its pointer/key/activation handlers, and the       *)
(* Wayland positioning helpers for GNOME and KDE.                         *)
(*                                                                         *)
(* Every handler is one action.  What a handler sends out of the window   *)
(* during its run is kept in three variables that describe the LAST       *)
(* handler run only: `out' (signals emitted on self.com), `dbus' (remote  *)
(* method calls) and `raised' (the exception that left the handler).      *)
(* `ev' is the event that handler was given.                              *)
(***************************************************************************)
EXTENDS Integers, Sequences, FiniteSets, TLC

\* Pointer positions are drawn from the grid (0..MaxX) x (0..MaxY).
MaxX == 2
MaxY == 1
\* Saturation value of the per-window count of repositioning requests.
MaxCalls == 2

VARIABLES
    windows,          \* display indexes for which a Window was constructed
    screen_,          \* Window.screen_: index, logical width, screenshot width
    scale_factor,     \* Window.scale_factor, kept as the exact fraction num/den
    selection_start,  \* Window.selection_start
    selection_end,    \* Window.selection_end
    is_selecting,     \* Window.is_selecting
    is_positioned,    \* Window.is_positioned
    wayland,          \* system_info.display_manager_is_wayland()
    desktop,          \* system_info.desktop_environment()
    HAS_QTDBUS,       \* module flag: QtDBus importable (and platform is linux)
    ev,               \* the event given to the last handler run
    out,              \* signals emitted by the last handler run, in order
    dbus,             \* remote methods called by the last handler run, in order
    raised,           \* exception that propagated out of the last handler run
    painted,          \* what the last handler run drew, if it was a paintEvent
    drag_origin,      \* history: point of the latest left-button press, or NoPoint
    reposition_calls, \* history: helper runs that issued the remote request
    was_selecting,    \* history: is_selecting of ev.w when the last handler began
    positioned_signals \* history: on_window_positioned emissions per window

winvars == <<selection_start, selection_end, is_selecting, is_positioned>>
envvars == <<windows, screen_, scale_factor, wayland, desktop, HAS_QTDBUS>>
vars == <<windows, screen_, scale_factor, selection_start, selection_end,
          is_selecting, is_positioned, wayland, desktop, HAS_QTDBUS,
          ev, out, dbus, raised, painted, drag_origin, reposition_calls,
          was_selecting, positioned_signals>>

----------------------------------------------------------------------------
(* Values *)

Points == [x : 0..MaxX, y : 0..MaxY]
\* QtCore.QPoint(): the null point (0, 0)
QPoint == [x |-> 0, y |-> 0]
NoPoint == [x |-> -1, y |-> -1]

Buttons == {"LeftButton", "RightButton"}
Keys == {"Key_Escape", "Key_Return"}
EventTypes == {"ActivationChange", "WindowStateChange"}
DesktopEnvironments == {"GNOME", "KDE", "OTHER"}

\* Logical width 2 with a screenshot 3 or 4 pixels wide: scale factors 1.5 and
\* 2.0, both exact in binary floating point, so num/den arithmetic on small
\* integers agrees with the float arithmetic of the program.
Screens(i) == [index : {i}, width : {2}, screenshot_width : {3, 4}]

\* Outcomes of one run of a positioning helper: the session bus is connected,
\* the QDBusInterface is valid (only on a connected bus), a call reported an
\* error name.
DBusOutcomes ==
    {o \in [connected : BOOLEAN, valid : BOOLEAN, error : BOOLEAN] :
        /\ o.valid => o.connected
        /\ o.error => o.valid}
NoOutcome == [connected |-> FALSE, valid |-> FALSE, error |-> FALSE]

----------------------------------------------------------------------------
(* Geometry *)

\* QtCore.QRect(topLeft, bottomRight): the corners are stored as given.
QRect(p1, p2) == [x1 |-> p1.x, y1 |-> p1.y, x2 |-> p2.x, y2 |-> p2.y]

\* QRect.normalized() of Qt 6 (qrect.cpp): on an axis whose corners are in
\* the wrong order the corners are swapped and moved one unit inwards, "the
\* corners are at different coordinates after the swap".
normalized(r) ==
    [x1 |-> IF r.x2 < r.x1 THEN r.x2 + 1 ELSE r.x1,
     y1 |-> IF r.y2 < r.y1 THEN r.y2 + 1 ELSE r.y1,
     x2 |-> IF r.x2 < r.x1 THEN r.x1 - 1 ELSE r.x2,
     y2 |-> IF r.y2 < r.y1 THEN r.y1 - 1 ELSE r.y2]

\* QRect.getCoords(): (x1, y1, x2, y2)
getCoords(r) == <<r.x1, r.y1, r.x2, r.y2>>

\* normcap.gui.models.Rect(left, top, right, bottom)
Rect(c) == [left |-> c[1], top |-> c[2], right |-> c[3], bottom |-> c[4]]

\* int(v * factor) for the fraction f: truncation towards zero, whatever the
\* signs of the value and of the factor
IntTimes(v, f) ==
    LET n == v * f.num
        an == IF n >= 0 THEN n ELSE -n
        ad == IF f.den >= 0 THEN f.den ELSE -f.den
    IN  IF (n >= 0) = (f.den > 0) THEN an \div ad ELSE -(an \div ad)

\* Rect.scaled(scale_factor): every coordinate multiplied and truncated
scaled(r, f) ==
    [left   |-> IntTimes(r.left, f),
     top    |-> IntTimes(r.top, f),
     right  |-> IntTimes(r.right, f),
     bottom |-> IntTimes(r.bottom, f)]

\* Window._get_scale_factor: screenshot.width() / screen_.width
_get_scale_factor(s) == [num |-> s.screenshot_width, den |-> s.width]

----------------------------------------------------------------------------
(* Events and signals *)

KeyEvent(w, k) ==
    [w |-> w, type |-> "keyPress", key |-> k, button |-> "-", pos |-> NoPoint,
     active |-> FALSE, outcome |-> NoOutcome, debug |-> FALSE]
MouseEvent(w, t, b, p) ==
    [w |-> w, type |-> t, key |-> "-", button |-> b, pos |-> p,
     active |-> FALSE, outcome |-> NoOutcome, debug |-> FALSE]
ChangeEvent(w, t, a, o) ==
    [w |-> w, type |-> t, key |-> "-", button |-> "-", pos |-> NoPoint,
     active |-> a, outcome |-> o, debug |-> FALSE]
PlainEvent(w, t) ==
    [w |-> w, type |-> t, key |-> "-", button |-> "-", pos |-> NoPoint,
     active |-> FALSE, outcome |-> NoOutcome, debug |-> FALSE]
\* A paint event, with UiLayerLabel.draw_debug_infos as the handler reads it
PaintEvent(w, d) == [PlainEvent(w, "paint") EXCEPT !.debug = d]
NoEvent == PlainEvent(-1, "-")

\* `pos' of a mouse event is event.position().toPoint() where the handler reads
\* it, and NoPoint where the handler returns without looking at the position.

\* The window state a slot connected to a signal observes while it runs.
Seen(s, e, sel) == [selection_start |-> s, selection_end |-> e, is_selecting |-> sel]

\* Communicate.on_esc_key_pressed / on_region_selected / on_window_positioned
on_esc_key_pressed(seen) ==
    [sig |-> "on_esc_key_pressed", seen |-> seen]
on_region_selected(rect, index, seen) ==
    [sig |-> "on_region_selected", rect |-> rect, index |-> index, seen |-> seen]
on_window_positioned(seen) ==
    [sig |-> "on_window_positioned", seen |-> seen]

----------------------------------------------------------------------------
(* Construction *)

\* Window.__init__ for the displays in ws
InitWindows(ws) ==
    /\ windows = ws
    /\ screen_ \in [ws -> UNION {Screens(i) : i \in ws}]
    /\ \A w \in ws : screen_[w].index = w
    /\ scale_factor = [w \in ws |-> _get_scale_factor(screen_[w])]
    /\ selection_start = [w \in ws |-> QPoint]
    /\ selection_end = [w \in ws |-> QPoint]
    /\ is_selecting = [w \in ws |-> FALSE]
    /\ is_positioned = [w \in ws |-> FALSE]
    /\ drag_origin = [w \in ws |-> NoPoint]
    /\ reposition_calls = [w \in ws |-> 0]
    /\ positioned_signals = [w \in ws |-> 0]

\* The sessions a run starts in: every Wayland session, and two X11 sessions
\* (there the desktop and QtDBus are never consulted by the handlers).
Sessions ==
    {s \in [wayland : BOOLEAN, desktop : DesktopEnvironments, has_qtdbus : BOOLEAN] :
        ~s.wayland => \/ (s.desktop = "GNOME" /\ s.has_qtdbus)
                      \/ (s.desktop = "OTHER" /\ ~s.has_qtdbus)}

InitSession ==
    /\ \E s \in Sessions :
          /\ wayland = s.wayland
          /\ desktop = s.desktop
          /\ HAS_QTDBUS = s.has_qtdbus
    /\ ev = NoEvent
    /\ out = <<>>
    /\ dbus = <<>>
    /\ raised = "none"
    /\ painted = <<>>
    /\ was_selecting = FALSE

Init == InitWindows({0}) /\ InitSession

----------------------------------------------------------------------------
(* Window.__init__ as an operation of the application *)

\* Screen.screenshot is None
NoScreenshot == -1

\* The Screens an application may hand to Window(): no image, a null image
\* (width 0) or an image 4 pixels wide, on a logical width that is negative,
\* zero or positive.
ScreensGiven(i) ==
    [index : {i}, width : {-2, 0, 2}, screenshot_width : {NoScreenshot, 0, 4}]

\* `if not self.screen_.screenshot' (line 165): None is false, and so is a
\* null QImage, which is what an image of width 0 is.
HasScreenshot(s) ==
    s.screenshot_width # NoScreenshot /\ s.screenshot_width # 0

\* What _get_scale_factor raises: the ValueError of line 166, or the
\* ZeroDivisionError of the float division of line 167.
ScaleFactorRaises(s) ==
    IF ~HasScreenshot(s) THEN "ValueError"
    ELSE IF s.width = 0 THEN "ZeroDivisionError"
    ELSE "none"

\* Window(screen=s): the window of display w exists afterwards only if
\* nothing was raised.
__init__(w, s) ==
    /\ w \notin windows
    /\ raised' = ScaleFactorRaises(s)
    /\ IF ScaleFactorRaises(s) = "none"
       THEN /\ windows' = windows \cup {w}
            /\ screen_' = (w :> s) @@ screen_
            /\ scale_factor' = (w :> _get_scale_factor(s)) @@ scale_factor
            /\ selection_start' = (w :> QPoint) @@ selection_start
            /\ selection_end' = (w :> QPoint) @@ selection_end
            /\ is_selecting' = (w :> FALSE) @@ is_selecting
            /\ is_positioned' = (w :> FALSE) @@ is_positioned
            /\ drag_origin' = (w :> NoPoint) @@ drag_origin
            /\ reposition_calls' = (w :> 0) @@ reposition_calls
            /\ positioned_signals' = (w :> 0) @@ positioned_signals
       ELSE UNCHANGED <<windows, screen_, scale_factor, winvars, drag_origin,
                        reposition_calls, positioned_signals>>
    /\ ev' = PlainEvent(w, "__init__")
    /\ out' = <<>>
    /\ dbus' = <<>>
    /\ painted' = <<>>
    /\ was_selecting' = FALSE
    /\ UNCHANGED <<wayland, desktop, HAS_QTDBUS>>

----------------------------------------------------------------------------
(* Window.keyPressEvent *)

\* line 229: the Escape branch taken while a drag is active
EscapeCancelsDrag(key, selecting) == key = "Key_Escape" /\ selecting

\* Variant: Escape emits the cancel signal whether or not a drag is active.
EscapeSignals_Always(selecting, seen) == <<on_esc_key_pressed(seen)>>

\* Variant: Escape never emits the cancel signal.
EscapeSignals_Never(selecting, seen) == <<>>

\* lines 229-233: what Escape emits
EscapeSignals(selecting, seen) ==
    IF selecting THEN <<>> ELSE <<on_esc_key_pressed(seen)>>

keyPressEvent(w, key) ==
    LET cancel == EscapeCancelsDrag(key, is_selecting[w])
        after  == Seen(selection_start[w], selection_end[w],
                       IF cancel THEN FALSE ELSE is_selecting[w])
    IN  /\ is_selecting' = [is_selecting EXCEPT ![w] = after.is_selecting]
        /\ out' = IF key = "Key_Escape"
                    THEN EscapeSignals(is_selecting[w], after)
                    ELSE <<>>
        /\ ev' = KeyEvent(w, key)
        /\ dbus' = <<>>
        /\ raised' = "none"
        /\ UNCHANGED <<selection_start, selection_end, is_positioned,
                       drag_origin, reposition_calls, envvars>>

----------------------------------------------------------------------------
(* Window.mousePressEvent, Window.mouseMoveEvent *)

\* Variant: a press is ignored while a drag is already active.
PressStartsDrag_OnlyIdle(button, selecting) == button = "LeftButton" /\ ~selecting

\* line 238: any left-button press starts a drag, whatever the drag flag
PressStartsDrag(button, selecting) == button = "LeftButton"

mousePressEvent(w, button, pos) ==
    LET left == PressStartsDrag(button, is_selecting[w])
    IN  /\ selection_start' = [selection_start EXCEPT ![w] = IF left THEN pos ELSE @]
        /\ selection_end' = [selection_end EXCEPT ![w] = IF left THEN pos ELSE @]
        /\ is_selecting' = [is_selecting EXCEPT ![w] = IF left THEN TRUE ELSE @]
        /\ drag_origin' = [drag_origin EXCEPT ![w] = IF left THEN pos ELSE @]
        /\ ev' = MouseEvent(w, "mousePress", button, IF left THEN pos ELSE NoPoint)
        /\ out' = <<>>
        /\ dbus' = <<>>
        /\ raised' = "none"
        /\ UNCHANGED <<is_positioned, reposition_calls, envvars>>

\* Variant: the selection end is one value shared by all windows.
mouseMoveEvent_Shared(w, pos) ==
    /\ selection_end' = [u \in windows |-> pos]
    /\ ev' = MouseEvent(w, "mouseMove", "-", pos)
    /\ out' = <<>>
    /\ dbus' = <<>>
    /\ raised' = "none"
    /\ UNCHANGED <<selection_start, is_selecting, is_positioned, drag_origin,
                   reposition_calls, envvars>>

mouseMoveEvent(w, pos) ==
    /\ selection_end' = [selection_end EXCEPT ![w] = pos]
    /\ ev' = MouseEvent(w, "mouseMove", "-", pos)
    /\ out' = <<>>
    /\ dbus' = <<>>
    /\ raised' = "none"
    /\ UNCHANGED <<selection_start, is_selecting, is_positioned, drag_origin,
                   reposition_calls, envvars>>

----------------------------------------------------------------------------
(* Window.mouseReleaseEvent *)

\* Variant: the guard forgets the button.
ReleaseEndsDrag_AnyButton(button, selecting) == selecting

\* Variant: the guard forgets `not self.is_selecting'.
ReleaseEndsDrag_AnyLeft(button, selecting) == button = "LeftButton"

\* line 252, negated: the release goes on to end the drag
ReleaseEndsDrag(button, selecting) == button = "LeftButton" /\ selecting

\* lines 256-258: QRect(selection_start, selection_end).normalized()
selected_rect(start, end) == normalized(QRect(start, end))

\* Variant: the reset forgets the drag flag.
AfterReset_KeepsFlag(s) == Seen(QPoint, QPoint, s.is_selecting)

\* lines 260-261: start and end back to the null point, flag cleared
AfterReset(s) == Seen(QPoint, QPoint, FALSE)

\* Variant: the signal is emitted before the reset of lines 260-261.
StateAtEmit_BeforeReset(captured, reset) == captured

\* lines 264-268: the signal is emitted as the last statement, so its slots
\* run on the window as the reset left it
StateAtEmit(captured, reset) == reset

\* lines 265-268: the payload of on_region_selected
selected_coords(rect, f) == scaled(Rect(getCoords(rect)), f)

mouseReleaseEvent(w, button, pos) ==
    IF ReleaseEndsDrag(button, is_selecting[w])
    THEN LET captured == Seen(selection_start[w], pos, is_selecting[w])
             rect     == selected_rect(captured.selection_start,
                                       captured.selection_end)
             reset    == AfterReset(captured)
         IN  /\ selection_start' = [selection_start EXCEPT ![w] = reset.selection_start]
             /\ selection_end' = [selection_end EXCEPT ![w] = reset.selection_end]
             /\ is_selecting' = [is_selecting EXCEPT ![w] = reset.is_selecting]
             /\ out' = <<on_region_selected(selected_coords(rect, scale_factor[w]),
                                            screen_[w].index,
                                            StateAtEmit(captured, reset))>>
             /\ ev' = MouseEvent(w, "mouseRelease", button, pos)
             /\ dbus' = <<>>
             /\ raised' = "none"
             /\ UNCHANGED <<is_positioned, drag_origin, reposition_calls, envvars>>
    ELSE /\ ev' = MouseEvent(w, "mouseRelease", button, NoPoint)
         /\ out' = <<>>
         /\ dbus' = <<>>
         /\ raised' = "none"
         /\ UNCHANGED <<winvars, drag_origin, reposition_calls, envvars>>

----------------------------------------------------------------------------
(* Wayland positioning *)

\* Variant: the availability test is inverted.
HelperRaises_Inverted(has_qtdbus) == has_qtdbus

\* lines 43-44 and 85-86: the helpers refuse to run without QtDBus
HelperRaises(has_qtdbus) == ~has_qtdbus

\* lines 65-76: the remote methods the GNOME helper calls
GnomeCalls(o) == IF o.valid THEN <<"Eval">> ELSE <<>>

\* lines 100-117: the remote methods the KDE helper calls
KdeCalls(o) == IF o.valid THEN <<"loadScript", "start">> ELSE <<>>

_move_active_window_to_position_on_gnome(o) ==
    IF HelperRaises(HAS_QTDBUS)
    THEN [raised |-> "TypeError", calls |-> <<>>]
    ELSE [raised |-> "none", calls |-> GnomeCalls(o)]

_move_active_window_to_position_on_kde(o) ==
    IF HelperRaises(HAS_QTDBUS)
    THEN [raised |-> "TypeError", calls |-> <<>>]
    ELSE [raised |-> "none", calls |-> KdeCalls(o)]

\* Variant: every desktop other than GNOME is handled as KDE.
PositioningHelper_ElseKde(de, o) ==
    IF de = "GNOME" THEN _move_active_window_to_position_on_gnome(o)
    ELSE _move_active_window_to_position_on_kde(o)

\* lines 198-201: the helper chosen by desktop environment
PositioningHelper(de, o) ==
    IF de = "GNOME" THEN _move_active_window_to_position_on_gnome(o)
    ELSE IF de = "KDE" THEN _move_active_window_to_position_on_kde(o)
    ELSE [raised |-> "none", calls |-> <<>>]

\* Variant: the flag is set only when the remote request was issued.
PositionedAfter_OnRequest(before, helper) ==
    IF helper.raised = "none" /\ helper.calls # <<>> THEN TRUE ELSE before

\* line 202: reached unless the helper raised
PositionedAfter(before, helper) ==
    IF helper.raised = "none" THEN TRUE ELSE before

_position_windows_on_wayland(w, o) ==
    LET helper == PositioningHelper(desktop, o)
    IN  [raised |-> helper.raised,
         calls |-> helper.calls,
         is_positioned |-> PositionedAfter(is_positioned[w], helper)]

\* The helper consults the bus only in these sessions.
UsesBus == desktop \in {"GNOME", "KDE"} /\ HAS_QTDBUS

\* Variant: the condition forgets the Wayland test.
ShouldPosition_AnySession(type, active, positioned) ==
    /\ type = "ActivationChange"
    /\ active
    /\ ~positioned

\* Variant: the condition forgets `not self.is_positioned'.
ShouldPosition_Always(type, active, positioned) ==
    /\ type = "ActivationChange"
    /\ wayland
    /\ active

\* lines 273-278: the condition under which changeEvent positions the window
ShouldPosition(type, active, positioned) ==
    /\ type = "ActivationChange"
    /\ wayland
    /\ active
    /\ ~positioned

\* Variant: on_window_positioned is emitted even when the call above raised.
PositionedSignals_Always(r, seen) == <<on_window_positioned(seen)>>

\* lines 279-280: on_window_positioned follows unless the call above raised
PositionedSignals(r, seen) ==
    IF r.raised = "none" THEN <<on_window_positioned(seen)>> ELSE <<>>

Bump(n, calls) == IF calls = <<>> \/ n >= MaxCalls THEN n ELSE n + 1

changeEvent(w, type, active, o) ==
    IF ShouldPosition(type, active, is_positioned[w])
    THEN LET r == _position_windows_on_wayland(w, o)
         IN  /\ is_positioned' = [is_positioned EXCEPT ![w] = r.is_positioned]
             /\ dbus' = r.calls
             /\ raised' = r.raised
             /\ out' = PositionedSignals(r, Seen(selection_start[w],
                            selection_end[w], is_selecting[w]))
             /\ reposition_calls' =
                    [reposition_calls EXCEPT ![w] = Bump(@, r.calls)]
             /\ ev' = ChangeEvent(w, type, active, IF UsesBus THEN o ELSE NoOutcome)
             /\ UNCHANGED <<selection_start, selection_end, is_selecting,
                            drag_origin, envvars>>
    ELSE /\ ev' = ChangeEvent(w, type, active, NoOutcome)
         /\ out' = <<>>
         /\ dbus' = <<>>
         /\ raised' = "none"
         /\ UNCHANGED <<winvars, drag_origin, reposition_calls, envvars>>

----------------------------------------------------------------------------
(* Window.resizeEvent, Window.showEvent: neither touches the selection,    *)
(* the flags or the scale factor.                                          *)

\* Variant: the resize recomputes the scale factor from a window one unit
\* wider than the screen.
resizeEvent_Rescales(w) ==
    /\ scale_factor' = [scale_factor EXCEPT ![w] =
            [num |-> screen_[w].screenshot_width, den |-> screen_[w].width + 1]]
    /\ ev' = PlainEvent(w, "resize")
    /\ out' = <<>>
    /\ dbus' = <<>>
    /\ raised' = "none"
    /\ UNCHANGED <<winvars, drag_origin, reposition_calls, windows, screen_,
                   wayland, desktop, HAS_QTDBUS>>

resizeEvent(w) ==
    /\ ev' = PlainEvent(w, "resize")
    /\ out' = <<>>
    /\ dbus' = <<>>
    /\ raised' = "none"
    /\ UNCHANGED <<winvars, drag_origin, reposition_calls, envvars>>

showEvent(w) ==
    /\ ev' = PlainEvent(w, "show")
    /\ out' = <<>>
    /\ dbus' = <<>>
    /\ raised' = "none"
    /\ UNCHANGED <<winvars, drag_origin, reposition_calls, envvars>>

----------------------------------------------------------------------------
(* UiLayerLabel.paintEvent *)

\* settings.value("mode"), as CaptureMode[mode.upper()] accepts it
CaptureModes == {"parse", "raw"}

\* line 339: the early return
PaintsNothing(selecting, debug) == ~(selecting \/ debug)

\* lines 308-331: the six text lines, drawn from the rectangle given
_draw_debug_infos(rect, f) ==
    [op |-> "drawText", lines |-> 6,
     selection |-> Rect(getCoords(normalized(rect))),
     selection_scaled |-> scaled(Rect(getCoords(normalized(rect))), f)]

\* lines 352-353: the dashed outline
drawRect(rect) == [op |-> "drawRect", rect |-> rect]

\* lines 355-360: the mode icon next to the top right corner
mode_indicator(mode, rect) ==
    [op |-> "icon",
     icon |-> IF mode = "parse" THEN ":parse" ELSE ":raw",
     x |-> rect.x2 - 24, y |-> rect.y1 - 30]

\* lines 349-360: the outline and the icon are drawn during a drag only
SelectionPainted(selecting, mode, rect) ==
    IF selecting THEN <<drawRect(rect), mode_indicator(mode, rect)>> ELSE <<>>

\* `debug' is self.draw_debug_infos as the application has set it by the time
\* of this paint; `mode' is the setting read at line 355.
paintEvent(w, debug, mode) ==
    LET rect == normalized(QRect(selection_start[w], selection_end[w]))
    IN  /\ painted' =
              IF PaintsNothing(is_selecting[w], debug) THEN <<>>
              ELSE (IF debug THEN <<_draw_debug_infos(rect, scale_factor[w])>>
                             ELSE <<>>)
                   \o SelectionPainted(is_selecting[w], mode, rect)
        /\ ev' = PaintEvent(w, debug)
        /\ out' = <<>>
        /\ dbus' = <<>>
        /\ raised' = "none"
        /\ UNCHANGED <<winvars, drag_origin, reposition_calls, envvars>>

----------------------------------------------------------------------------
(* The event loop hands one event at a time to one window. *)

\* The history kept of a handler run on w: the drag flag it started from.
Observed(w) == was_selecting' = is_selecting[w]

\* on_window_positioned is emitted at line 280 only, by changeEvent; its
\* emissions are counted per window (the count stops at MaxCalls).
Tally(n, o) == IF o = <<>> \/ n >= MaxCalls THEN n ELSE n + Len(o)

\* Pointer positions of a session with two displays: two per window
MultiPoints == {[x |-> 0, y |-> 0], [x |-> 1, y |-> 1]}

\* The positions the pointer events of a session carry
PointerPoints == IF 1 \in windows THEN MultiPoints ELSE Points

\* The press and release handlers call event.position() for the left button
\* only: the position of any other button's event is never read.
PointsRead(b) == IF b = "LeftButton" THEN PointerPoints ELSE {NoPoint}

\* The bus is consulted only past `type() == ActivationChange' and
\* `isActiveWindow()' (lines 274-276).
OutcomesRead(t, a) ==
    IF t = "ActivationChange" /\ a THEN DBusOutcomes ELSE {NoOutcome}

\* A handler of the Window itself paints nothing.
WindowHandler(w) ==
    /\ Observed(w)
    /\ painted' = <<>>
    /\ UNCHANGED positioned_signals

KeyPress == \E w \in windows : \E k \in Keys :
                keyPressEvent(w, k) /\ WindowHandler(w)
MousePress == \E w \in windows : \E b \in Buttons : \E p \in PointsRead(b) :
                  mousePressEvent(w, b, p) /\ WindowHandler(w)
MouseMove == \E w \in windows : \E p \in PointerPoints :
                 mouseMoveEvent(w, p) /\ WindowHandler(w)
MouseRelease == \E w \in windows : \E b \in Buttons : \E p \in PointsRead(b) :
                    mouseReleaseEvent(w, b, p) /\ WindowHandler(w)
Change == \E w \in windows : \E t \in EventTypes : \E a \in BOOLEAN :
              \E o \in OutcomesRead(t, a) :
                  /\ changeEvent(w, t, a, o)
                  /\ Observed(w)
                  /\ painted' = <<>>
                  /\ positioned_signals' =
                         [positioned_signals EXCEPT ![w] = Tally(@, out')]
Resize == \E w \in windows : resizeEvent(w) /\ WindowHandler(w)
Show == \E w \in windows : showEvent(w) /\ WindowHandler(w)
Paint == \E w \in windows : \E d \in BOOLEAN : \E m \in CaptureModes :
             paintEvent(w, d, m) /\ Observed(w) /\ UNCHANGED positioned_signals

Next ==
    \/ KeyPress
    \/ MousePress
    \/ MouseMove
    \/ MouseRelease
    \/ Change
    \/ Resize
    \/ Show
    \/ Paint

Spec == Init /\ [][Next]_vars

\* The application constructs the window of display 0 itself, from any Screen;
\* a construction that raised may be tried again.
Construct == \E s \in ScreensGiven(0) : __init__(0, s)

\* Two displays, one Window each, with different scale factors, in a GNOME
\* session with QtDBus, on Wayland or on X11.
InitMulti ==
    /\ InitWindows({0, 1})
    /\ screen_[0].screenshot_width < screen_[1].screenshot_width
    /\ InitSession
    /\ desktop = "GNOME"
    /\ HAS_QTDBUS
SpecMulti == InitMulti /\ [][Next]_vars

InitConstruct == InitWindows({}) /\ InitSession
NextConstruct == Construct \/ Next
SpecConstruct == InitConstruct /\ [][NextConstruct]_vars

----------------------------------------------------------------------------
(* Vocabulary of the properties *)

Min(a, b) == IF a <= b THEN a ELSE b
Max(a, b) == IF a >= b THEN a ELSE b

\* The axis-aligned rectangle spanned by two points, whatever their order.
Normalization(p, q) ==
    [left |-> Min(p.x, q.x), top |-> Min(p.y, q.y),
     right |-> Max(p.x, q.x), bottom |-> Max(p.y, q.y)]

\* The step hands an event of type t to window w.
Handles(w, t) == ev'.w = w /\ ev'.type = t

\* The step is a left-button release on w received while a drag is active.
ReleaseOfDrag(w) ==
    Handles(w, "mouseRelease") /\ ev'.button = "LeftButton" /\ is_selecting[w]

\* The step is a left-button release on w received while no drag is active.
ReleaseWhileIdle(w) ==
    Handles(w, "mouseRelease") /\ ev'.button = "LeftButton" /\ ~is_selecting[w]

\* The step is an Escape key press on w.
EscapeOn(w) == Handles(w, "keyPress") /\ ev'.key = "Key_Escape"

\* The step is an activation change that makes w run the positioning.
Triggers(w) ==
    /\ Handles(w, "ActivationChange")
    /\ ev'.active
    /\ wayland
    /\ ~is_positioned[w]

\* The step is any change event on w.
ChangeOn(w) == \E t \in EventTypes : Handles(w, t)

Signals(o) == [i \in 1..Len(o) |-> o[i].sig]

\* The helper's remote request failed: bus down, interface invalid, call error.
Failed(o) == ~o.connected \/ ~o.valid \/ o.error

----------------------------------------------------------------------------
(* C1 *)

\* C1: a left-button release that ends a drag emits exactly one
\* on_region_selected whose rectangle is the axis-aligned normalization of
\* (press point, release point) scaled by the window's scale factor, with the
\* screen's index, whatever moves came before or in between.
C1_DragEmitsNormalizedScaledRect ==
    [][\A w \in windows :
         ReleaseOfDrag(w) =>
            /\ Signals(out') = <<"on_region_selected">>
            /\ out'[1].rect =
                 scaled(Normalization(drag_origin[w], ev'.pos), scale_factor[w])
            /\ out'[1].index = screen_[w].index]_vars

----------------------------------------------------------------------------
(* C2 *)

\* C2: every emitted selection rectangle has left <= right and top <= bottom
\* and its corners are the scaled (screenshot-pixel) images of corners of the
\* drag.
C2_EmittedRectNormalizedInPixels ==
    \A i \in 1..Len(out) :
        out[i].sig = "on_region_selected" =>
            LET r == out[i].rect
                f == scale_factor[ev.w]
                xs == {IntTimes(drag_origin[ev.w].x, f), IntTimes(ev.pos.x, f)}
                ys == {IntTimes(drag_origin[ev.w].y, f), IntTimes(ev.pos.y, f)}
            IN  /\ r.left <= r.right
                /\ r.top <= r.bottom
                /\ {r.left, r.right} \subseteq xs
                /\ {r.top, r.bottom} \subseteq ys

----------------------------------------------------------------------------
(* C3 *)

\* C3: when a release ends a drag, on_region_selected is the only signal, its
\* slots see selection start/end already reset to the null point and the drag
\* flag already false, and the window state the handler leaves behind is the
\* state the slots saw.
C3_EmitAfterReset ==
    [][\A w \in windows :
         ReleaseOfDrag(w) =>
            /\ Signals(out') = <<"on_region_selected">>
            /\ out'[1].seen = Seen(QPoint, QPoint, FALSE)
            /\ out'[1].seen = Seen(selection_start'[w], selection_end'[w],
                                   is_selecting'[w])]_vars

C3_Witness ==
    /\ ev.type = "mouseRelease"
    /\ Signals(out) = <<"on_region_selected">>
    /\ drag_origin[ev.w] # QPoint
    /\ ev.pos # QPoint
    /\ ~is_selecting[ev.w]

----------------------------------------------------------------------------
(* C4 *)

\* C4 as stated: Escape during a drag clears the flag, resets selection start
\* and end to the null point, and emits nothing.
C4_EscapeResetsPoints ==
    [][\A w \in windows :
         (EscapeOn(w) /\ is_selecting[w]) =>
            /\ ~is_selecting'[w]
            /\ selection_start'[w] = QPoint
            /\ selection_end'[w] = QPoint
            /\ out' = <<>>]_vars

\* C4 amended: Escape during a drag clears the flag and emits nothing; the
\* selection start and end keep the values they had.
C4_EscapeCancelsDrag ==
    [][\A w \in windows :
         (EscapeOn(w) /\ is_selecting[w]) =>
            /\ ~is_selecting'[w]
            /\ selection_start'[w] = selection_start[w]
            /\ selection_end'[w] = selection_end[w]
            /\ out' = <<>>]_vars

C4_Witness ==
    /\ ev.type = "keyPress"
    /\ ev.key = "Key_Escape"
    /\ out = <<>>
    /\ ~is_selecting[ev.w]
    /\ selection_start[ev.w] = drag_origin[ev.w]
    /\ selection_start[ev.w] # QPoint
    /\ selection_end[ev.w] # selection_start[ev.w]

----------------------------------------------------------------------------
(* C5 *)

\* C5: Escape while no drag is active emits exactly one on_esc_key_pressed and
\* changes none of selection start, selection end, the drag flag, the
\* positioned flag and the scale factor.
C5_EscapeIdleOnlyNotifies ==
    [][\A w \in windows :
         (EscapeOn(w) /\ ~is_selecting[w]) =>
            /\ Signals(out') = <<"on_esc_key_pressed">>
            /\ DOMAIN out'[1] = {"sig", "seen"}
            /\ UNCHANGED <<selection_start, selection_end, is_selecting,
                           is_positioned, scale_factor>>]_vars

C5_Witness ==
    /\ ev.type = "keyPress"
    /\ ev.key = "Key_Escape"
    /\ Signals(out) = <<"on_esc_key_pressed">>
    /\ selection_end[ev.w] # QPoint

----------------------------------------------------------------------------
(* C6 *)

\* C6: a left-button release while no drag is active emits nothing and
\* changes none of selection start, selection end and the drag flag.
C6_ReleaseIdleNoOp ==
    [][\A w \in windows :
         ReleaseWhileIdle(w) =>
            /\ out' = <<>>
            /\ UNCHANGED <<selection_start, selection_end, is_selecting>>]_vars

C6_Witness ==
    /\ ev.type = "mouseRelease"
    /\ ev.button = "LeftButton"
    /\ out = <<>>
    /\ ~is_selecting[ev.w]
    /\ selection_start[ev.w] # QPoint
    /\ selection_end[ev.w] # selection_start[ev.w]

----------------------------------------------------------------------------
(* C7 *)

\* C7: per window the remote repositioning request is issued at most once,
\* the positioned flag never returns to false, and a change event received by
\* a positioned window calls no remote method.
C7_PositionsAtMostOnce ==
    /\ [](\A w \in windows : reposition_calls[w] <= 1)
    /\ [][\A w \in windows :
            /\ is_positioned[w] => is_positioned'[w]
            /\ (is_positioned[w] /\ ChangeOn(w)) =>
                   (dbus' = <<>> /\ UNCHANGED reposition_calls)]_vars

\* A positioned window whose one request went out is activated again.
C7_Witness ==
    /\ ev.type = "ActivationChange"
    /\ ev.active
    /\ wayland
    /\ is_positioned[ev.w]
    /\ reposition_calls[ev.w] = 1
    /\ dbus = <<>>
    /\ out = <<>>

----------------------------------------------------------------------------
(* C8 *)

\* C8 as stated: in a Wayland session on a desktop other than GNOME and KDE
\* no remote method is called and on_window_positioned is never emitted.
C8_OtherDesktopNoSignal ==
    (wayland /\ desktop \notin {"GNOME", "KDE"}) =>
        /\ dbus = <<>>
        /\ \A i \in 1..Len(out) : out[i].sig # "on_window_positioned"

\* C8 amended: in such a session the activation that triggers the positioning
\* calls no remote method, but it sets the positioned flag and emits
\* on_window_positioned; no remote request is ever counted for the window.
C8_OtherDesktopNoRemoteCall ==
    /\ []((wayland /\ desktop \notin {"GNOME", "KDE"}) =>
            (dbus = <<>> /\ \A w \in windows : reposition_calls[w] = 0))
    /\ [][\A w \in windows :
            (Triggers(w) /\ desktop \notin {"GNOME", "KDE"}) =>
                /\ dbus' = <<>>
                /\ raised' = "none"
                /\ is_positioned'[w]
                /\ Signals(out') = <<"on_window_positioned">>]_vars

C8_Witness ==
    /\ wayland
    /\ desktop = "OTHER"
    /\ ev.type = "ActivationChange"
    /\ ev.active
    /\ is_positioned[ev.w]
    /\ Signals(out) = <<"on_window_positioned">>
    /\ dbus = <<>>

----------------------------------------------------------------------------
(* C9 *)

\* The step triggers the positioning on w and the helper's request fails.
TriggersFailing(w) ==
    Triggers(w) /\ UsesBus /\ Failed(ev'.outcome)

\* C9 as stated: after a failed remote request the window's positioned flag
\* is not set (and the request is not retried).
C9_FailureLeavesUnpositioned ==
    [][\A w \in windows : TriggersFailing(w) => ~is_positioned'[w]]_vars

\* C9 amended: a failed remote request is not retried on any later activation
\* event because the positioned flag is set all the same: the handler returns
\* normally, sets the flag and emits on_window_positioned, and from then on
\* change events on the window call no remote method.
C9_FailureNotRetried ==
    [][\A w \in windows :
         /\ TriggersFailing(w) =>
               /\ is_positioned'[w]
               /\ raised' = "none"
               /\ Signals(out') = <<"on_window_positioned">>
               /\ dbus' = IF ~ev'.outcome.valid THEN <<>>
                          ELSE IF desktop = "GNOME" THEN <<"Eval">>
                          ELSE <<"loadScript", "start">>
         /\ (is_positioned[w] /\ ChangeOn(w)) =>
               (dbus' = <<>> /\ is_positioned'[w])]_vars

\* A later activation of a window whose request had failed on an invalid
\* interface: positioned, nothing requested then or now.
C9_Witness ==
    /\ wayland
    /\ UsesBus
    /\ ev.type = "ActivationChange"
    /\ ev.active
    /\ is_positioned[ev.w]
    /\ reposition_calls[ev.w] = 0
    /\ out = <<>>
    /\ dbus = <<>>

----------------------------------------------------------------------------
(* C10 *)

\* C10 as stated: no handler run ends with an exception.
C10_NothingPropagates == raised = "none"

\* C10 amended: when the bus is not connected, the interface is invalid or a
\* call reports an error, the activation handler returns normally; it ends
\* with the helper's TypeError exactly when it triggers the positioning on
\* GNOME or KDE without QtDBus, and then it leaves the positioned flag false,
\* emits nothing and calls nothing.  In every case the selection state is
\* left as it was, and no other handler ends with an exception.
C10_OnlyMissingQtDBusPropagates ==
    /\ [](raised # "none" =>
            /\ raised = "TypeError"
            /\ ev.type = "ActivationChange"
            /\ desktop \in {"GNOME", "KDE"}
            /\ ~HAS_QTDBUS
            /\ ~is_positioned[ev.w]
            /\ out = <<>>
            /\ dbus = <<>>)
    /\ [][\A w \in windows :
            ChangeOn(w) =>
               /\ (raised' = "TypeError") <=>
                      (Triggers(w) /\ desktop \in {"GNOME", "KDE"} /\ ~HAS_QTDBUS)
               /\ UNCHANGED <<selection_start, selection_end, is_selecting>>]_vars

\* The handler has returned normally from a request that reported an error,
\* in the middle of a drag.
C10_Witness ==
    /\ ev.type = "ActivationChange"
    /\ ev.outcome.error
    /\ raised = "none"
    /\ is_selecting[ev.w]
    /\ dbus # <<>>

----------------------------------------------------------------------------
(* C11 *)

\* C11: every window's scale factor is the ratio of its screen's screenshot
\* width to its logical width, in every state: no resize, show, press, move,
\* release, key, activation or paint changes it.
C11_ScaleFactorFixed ==
    \A w \in windows :
        /\ scale_factor[w].den # 0
        /\ scale_factor[w].num * screen_[w].width =
              scale_factor[w].den * screen_[w].screenshot_width

\* A drag is in progress on a window that was just resized.
C11_Witness ==
    /\ ev.type = "resize"
    /\ is_selecting[ev.w]
    /\ scale_factor[ev.w].num = 3
    /\ selection_end[ev.w] # selection_start[ev.w]

----------------------------------------------------------------------------
(* C13 *)

\* C13: after a left-button press, in whatever state it was received,
\* selection start and end are both the press point and the drag is active;
\* the rectangle a release emits is built from the latest press point, so a
\* second press during a drag discards the first press point.
C13_PressOverwrites ==
    /\ (ev.type = "mousePress" /\ ev.button = "LeftButton") =>
          /\ ev.pos \in Points
          /\ selection_start[ev.w] = ev.pos
          /\ selection_end[ev.w] = ev.pos
          /\ is_selecting[ev.w]
          /\ drag_origin[ev.w] = ev.pos
    /\ (ev.type = "mouseRelease" /\ out # <<>>) =>
          out[1].rect =
             selected_coords(selected_rect(drag_origin[ev.w], ev.pos),
                             scale_factor[ev.w])

\* A left-button press received while a drag was already active.
C13_Witness ==
    /\ ev.type = "mousePress"
    /\ ev.button = "LeftButton"
    /\ was_selecting
    /\ is_selecting[ev.w]
    /\ ev.pos # QPoint

----------------------------------------------------------------------------
(* C14 *)

\* C14: on_window_positioned is emitted at most once per window, and never
\* while the window's positioned flag is false.
C14_PositionedSignalOnce ==
    /\ \A w \in windows :
          /\ positioned_signals[w] <= 1
          /\ positioned_signals[w] = 1 => is_positioned[w]
    /\ \A i \in 1..Len(out) :
          out[i].sig = "on_window_positioned" => is_positioned[ev.w]

\* A window that has emitted the signal is activated again and stays silent.
C14_Witness ==
    /\ ev.type = "ActivationChange"
    /\ ev.active
    /\ wayland
    /\ positioned_signals[ev.w] = 1
    /\ out = <<>>

----------------------------------------------------------------------------
(* C15 *)

\* C15: a handler run calls a remote method, ends with the helper's
\* exception, sets the positioned flag or counts a request only if it handles
\* an activation change of the active window in a Wayland session while the
\* window is unpositioned.
C15_PositioningOnlyOnTrigger ==
    [][(\/ dbus' # <<>>
        \/ raised' # "none"
        \/ is_positioned' # is_positioned
        \/ reposition_calls' # reposition_calls)
       => /\ ev'.type = "ActivationChange"
          /\ ev'.active
          /\ wayland
          /\ ~is_positioned[ev'.w]]_vars

\* The KDE request went out on an activation during a drag.
C15_Witness ==
    /\ dbus = <<"loadScript", "start">>
    /\ ev.type = "ActivationChange"
    /\ ev.active
    /\ wayland
    /\ is_selecting[ev.w]

----------------------------------------------------------------------------
(* C16 *)

\* C16: on_esc_key_pressed is emitted only by an Escape key press received
\* while no drag was active, and then alone.
C16_CancelOnlyOnIdleEscape ==
    \A i \in 1..Len(out) :
        out[i].sig = "on_esc_key_pressed" =>
            /\ ev.type = "keyPress"
            /\ ev.key = "Key_Escape"
            /\ ~was_selecting
            /\ Len(out) = 1

\* Escape received during a drag: nothing emitted.
C16_Witness ==
    /\ ev.type = "keyPress"
    /\ ev.key = "Key_Escape"
    /\ was_selecting
    /\ out = <<>>

----------------------------------------------------------------------------
(* C19 *)

\* C19: on_region_selected is emitted only by a left-button release received
\* during a drag, alone, and it leaves the drag flag false; the flag becomes
\* true again only by a left-button press.
C19_RegionOncePerPress ==
    /\ \A i \in 1..Len(out) :
          out[i].sig = "on_region_selected" =>
              /\ ev.type = "mouseRelease"
              /\ ev.button = "LeftButton"
              /\ was_selecting
              /\ ~is_selecting[ev.w]
              /\ Len(out) = 1
    /\ (ev.w \in windows /\ ~was_selecting /\ is_selecting[ev.w]) =>
          (ev.type = "mousePress" /\ ev.button = "LeftButton")

\* A release after the drag was already ended by a release: nothing emitted.
C19_Witness ==
    /\ ev.type = "mouseRelease"
    /\ ev.button = "LeftButton"
    /\ ~was_selecting
    /\ out = <<>>
    /\ drag_origin[ev.w] # NoPoint
    /\ selection_start[ev.w] = QPoint
    /\ selection_end[ev.w] = QPoint
    /\ drag_origin[ev.w] # QPoint

----------------------------------------------------------------------------
(* C20 *)

\* C20: a press or a release of a button other than the left one emits
\* nothing and changes none of selection start, selection end and the drag
\* flag.
C20_OnlyLeftButton ==
    [][\A w \in windows :
         ((Handles(w, "mousePress") \/ Handles(w, "mouseRelease"))
             /\ ev'.button # "LeftButton") =>
            /\ out' = <<>>
            /\ UNCHANGED <<selection_start, selection_end, is_selecting>>]_vars

\* The right button was released in the middle of a drag.
C20_Witness ==
    /\ ev.type = "mouseRelease"
    /\ ev.button = "RightButton"
    /\ was_selecting
    /\ is_selecting[ev.w]
    /\ selection_end[ev.w] # selection_start[ev.w]

----------------------------------------------------------------------------
(* C17 *)

Ops(p, op) == {i \in 1..Len(p) : p[i].op = op}

\* What a paint must show besides the rectangle itself: nothing at all when
\* neither a drag is active nor debug display is on, the outline and the icon
\* exactly during a drag.
PaintShowsDragOnly ==
    ev.type = "paint" =>
        /\ (~is_selecting[ev.w] /\ ~ev.debug) => painted = <<>>
        /\ Cardinality(Ops(painted, "drawRect")) = (IF is_selecting[ev.w] THEN 1 ELSE 0)
        /\ Cardinality(Ops(painted, "icon")) = (IF is_selecting[ev.w] THEN 1 ELSE 0)

\* C17: a paint renders nothing when neither a drag is active nor debug
\* display is on; it draws the outline and the mode icon if and only if a drag
\* is active, and the outline is the normalized rectangle (left <= right,
\* top <= bottom) spanned by the current selection start and end.
C17_PaintsNormalizedSelection ==
    /\ PaintShowsDragOnly
    /\ ev.type = "paint" =>
          \A i \in Ops(painted, "drawRect") :
              Rect(getCoords(painted[i].rect)) =
                 Normalization(selection_start[ev.w], selection_end[ev.w])

----------------------------------------------------------------------------
(* C12 *)

\* C12: construction succeeds only if the Screen has a captured image and
\* the scale factor is strictly positive, so every constructed window has a
\* screenshot and a scale factor > 0.
C12_ConstructedOnlyWithPositiveScale ==
    \A w \in windows :
        /\ HasScreenshot(screen_[w])
        /\ scale_factor[w].num * scale_factor[w].den > 0

----------------------------------------------------------------------------
(* C18 *)

\* The step leaves the state of every window other than w as it was.
OthersUntouched(w) ==
    \A u \in windows \ {w} :
        /\ selection_start'[u] = selection_start[u]
        /\ selection_end'[u] = selection_end[u]
        /\ is_selecting'[u] = is_selecting[u]
        /\ is_positioned'[u] = is_positioned[u]
        /\ scale_factor'[u] = scale_factor[u]

\* The rectangle computed from w's own latest left press, the position pos of
\* its own release and the Screen it was constructed with.
OwnSelection(w, pos) ==
    scaled(Rect(getCoords(normalized(QRect(drag_origin[w], pos)))),
           _get_scale_factor(screen_[w]))

\* C18: with two windows under any interleaving of their events, an event
\* handled by one window changes no other window's selection start or end,
\* drag flag, positioned flag or scale factor, and what a window emits is
\* computed from its own press and release and its own Screen.
C18_WindowsIndependent ==
    [][\A w \in windows :
         ev'.w = w =>
            /\ OthersUntouched(w)
            /\ \A i \in 1..Len(out') :
                  out'[i].sig = "on_region_selected" =>
                     /\ out'[i].index = screen_[w].index
                     /\ out'[i].rect = OwnSelection(w, ev'.pos)]_vars

\* Window 1 has just emitted its selection while window 0 is in the middle of
\* a drag that started at another point.
C18_Witness ==
    /\ windows = {0, 1}
    /\ ev.w = 1
    /\ ev.type = "mouseRelease"
    /\ Signals(out) = <<"on_region_selected">>
    /\ is_selecting[0]
    /\ selection_start[0] # drag_origin[1]
    /\ selection_end[0] # ev.pos

====
